---- MODULE Spec2Model ----
(***************************************************************************)
(* Model of linq-ts (src/index.ts): lazy streams built on JavaScript       *)
(* generators.  Every Stream wraps one generator object; a stage's         *)
(* generator holds a reference to the generator of the stream it was       *)
(* called on.  The heap is the sequence of generator objects, a stream is  *)
(* identified with the heap index of its generator.                        *)
(*                                                                         *)
(* A generator object is in one of the states of the ECMAScript generator  *)
(* protocol: "suspendedStart" (body not entered), "suspendedYield"         *)
(* (parked at a yield) or "completed".  for-of calls next() on the         *)
(* iterator and, when the loop is left by break or by a throw, return().   *)
(*                                                                         *)
(* The model follows one pipeline tree rooted at a single source: sources  *)
(* share no state, so a second source adds no behaviour.                   *)
(***************************************************************************)
EXTENDS Integers, Sequences, FiniteSets

VARIABLES heap, handles, used, last, ncalls, owners

vars == <<heap, handles, used, last, ncalls, owners>>

(* ---------------- bounds ---------------- *)
MaxLen == 3
MaxGens == 3
MaxCalls == 2

(* ---------------- elements ---------------- *)
Num(n) == [t |-> "number", v |-> n]
Str(n) == [t |-> "string", v |-> n]
NoItem == [t |-> "undefined", v |-> 0]
GroupItem(key, values) == [t |-> "group", key |-> key, values |-> values]

Values == {Num(1), Num(2), Str(1)}
Arrays == UNION {[1..n -> Values] : n \in 0..MaxLen}

(* the functions a caller passes to select, where and groupBy *)
Mappers == {"succ"}
Predicates == {"gt1"}
KeySelectors == {"id", "typeof"}

\* n => n   |   n => typeof n === 'number' ? n + 1 : n   |   n => typeof n
\* (the strings: 1 is 'a', 2 is 'number', 3 is 'string', 4 is 'object')
mapper(fn, item) ==
  CASE fn = "id" -> item
    [] fn = "succ" -> IF item.t = "number" THEN Num(item.v + 1) ELSE item
    [] fn = "typeof" -> IF item.t = "number" THEN Str(2)
                        ELSE IF item.t = "string" THEN Str(3) ELSE Str(4)

\* n => n > 1
predicate(fn, item) ==
  CASE fn = "gt1" -> item.t = "number" /\ item.v > 1

(* ---------------- generator objects ---------------- *)
NewGen(kind) ==
  [kind |-> kind, state |-> "suspendedStart", up |-> 0,
   source |-> <<>>, idx |-> 0, i |-> 0, end |-> 0,
   fn |-> "none", count |-> 0, counter |-> 0,
   groups |-> <<>>, gidx |-> 0]

StageKinds == {"select", "where", "take", "skip"}

(* the machine a call runs on: the heap and the events of the call *)
NextEv(g, by, done, value) == [e |-> "next", g |-> g, by |-> by, done |-> done, item |-> value]
ReturnEv(g, by) == [e |-> "return", g |-> g, by |-> by, done |-> TRUE, item |-> NoItem]
FnEv(g, item) == [e |-> "fn", g |-> g, by |-> g, done |-> FALSE, item |-> item]
ActEv(item) == [e |-> "action", g |-> 0, by |-> 0, done |-> FALSE, item |-> item]

Emit(m, ev) == [m EXCEPT !.log = Append(@, ev)]
SetGen(m, g, rec) == [m EXCEPT !.heap[g] = rec]
Alloc(m, rec) == [m EXCEPT !.heap = Append(@, rec)]
Yield(m, g, value) ==
  [m |-> [m EXCEPT !.heap[g].state = "suspendedYield"], done |-> FALSE, value |-> value]
Complete(m, g) ==
  [m |-> [m EXCEPT !.heap[g].state = "completed"], done |-> TRUE, value |-> NoItem]

RECURSIVE GenNext(_, _, _)
RECURSIVE GenReturn(_, _, _)
RECURSIVE whereGen(_, _)
RECURSIVE skipGen(_, _)
RECURSIVE groupLoop(_, _, _)

\* Stream.of: a generator over the items of an array
of(source) == [NewGen("array") EXCEPT !.source = source]

\* variant: the array generator rewinds at the end instead of completing
generatorFromArray_Rewind(m, g) ==
  LET G == m.heap[g] IN
  IF G.idx < Len(G.source)
    THEN Yield(SetGen(m, g, [G EXCEPT !.idx = @ + 1]), g, G.source[G.idx + 1])
    ELSE [m |-> SetGen(m, g, [G EXCEPT !.idx = 0, !.state = "suspendedStart"]),
          done |-> TRUE, value |-> NoItem]

\* variant: the array generator starts at the second item
generatorFromArray_SkipFirst(m, g) ==
  LET G == m.heap[g]
      at == IF G.idx = 0 THEN 1 ELSE G.idx
  IN  IF at < Len(G.source)
        THEN Yield(SetGen(m, g, [G EXCEPT !.idx = at + 1]), g, G.source[at + 1])
        ELSE Complete(m, g)

generatorFromArray(m, g) ==
  LET G == m.heap[g] IN
  IF G.idx < Len(G.source)
    THEN Yield(SetGen(m, g, [G EXCEPT !.idx = @ + 1]), g, G.source[G.idx + 1])
    ELSE Complete(m, g)

\* variant: the loop stops before end
rangeGen_Exclusive(m, g) ==
  LET G == m.heap[g] IN
  IF G.i < G.end
    THEN Yield(SetGen(m, g, [G EXCEPT !.i = @ + 1]), g, Num(G.i))
    ELSE Complete(m, g)

rangeGen(m, g) ==
  LET G == m.heap[g] IN
  IF G.i <= G.end
    THEN Yield(SetGen(m, g, [G EXCEPT !.i = @ + 1]), g, Num(G.i))
    ELSE Complete(m, g)

\* variant: the stage reads one upstream item ahead of the one it maps
selectGen_ReadAhead(m, g) ==
  LET G == m.heap[g]
      r == GenNext(m, G.up, g)
  IN  IF r.done
        THEN Complete(r.m, g)
        ELSE LET ahead == GenNext(r.m, G.up, g)
             IN  Yield(Emit(ahead.m, FnEv(g, r.value)), g, mapper(G.fn, r.value))

\* variant: the mapper is invoked but the item is yielded as it came
selectGen_Unmapped(m, g) ==
  LET G == m.heap[g]
      r == GenNext(m, G.up, g)
  IN  IF r.done
        THEN Complete(r.m, g)
        ELSE Yield(Emit(r.m, FnEv(g, r.value)), g, r.value)

selectGen(m, g) ==
  LET G == m.heap[g]
      r == GenNext(m, G.up, g)
  IN  IF r.done
        THEN Complete(r.m, g)
        ELSE Yield(Emit(r.m, FnEv(g, r.value)), g, mapper(G.fn, r.value))

\* variant: the generator ends at the first item the predicate rejects
whereGen_StopAtReject(m, g) ==
  LET G == m.heap[g]
      r == GenNext(m, G.up, g)
  IN  IF r.done
        THEN Complete(r.m, g)
        ELSE IF ~predicate(G.fn, r.value)
               THEN Complete(GenReturn(Emit(r.m, FnEv(g, r.value)), G.up, g), g)
               ELSE Yield(Emit(r.m, FnEv(g, r.value)), g, r.value)

whereGen(m, g) ==
  LET G == m.heap[g]
      r == GenNext(m, G.up, g)
  IN  IF r.done
        THEN Complete(r.m, g)
        ELSE IF ~predicate(G.fn, r.value)
               THEN whereGen(Emit(r.m, FnEv(g, r.value)), g)
               ELSE Yield(Emit(r.m, FnEv(g, r.value)), g, r.value)

\* Map.has / Map.set / push on an insertion-ordered map
HasKey(groups, key) == \E k \in 1..Len(groups) : groups[k].key = key
KeyIndex(groups, key) == CHOOSE k \in 1..Len(groups) : groups[k].key = key
\* variant: a key seen again moves to the end of the map
AddToGroups_Reinsert(groups, key, item) ==
  IF ~HasKey(groups, key)
    THEN Append(groups, [key |-> key, values |-> <<item>>])
    ELSE LET k == KeyIndex(groups, key)
             rest == [j \in 1..(Len(groups) - 1) |->
                        IF j < k THEN groups[j] ELSE groups[j + 1]]
         IN  Append(rest, [key |-> key, values |-> Append(groups[k].values, item)])

AddToGroups(groups, key, item) ==
  IF ~HasKey(groups, key)
    THEN Append(groups, [key |-> key, values |-> <<item>>])
    ELSE [groups EXCEPT ![KeyIndex(groups, key)].values = Append(@, item)]

\* variant: the first loop is left after one item
groupLoop_OneItem(m, g, groups) ==
  LET G == m.heap[g]
      r == GenNext(m, G.up, g)
  IN  IF r.done
        THEN [m |-> r.m, groups |-> groups]
        ELSE [m |-> Emit(r.m, FnEv(g, r.value)),
              groups |-> AddToGroups(groups, mapper(G.fn, r.value), r.value)]

\* first loop of groupBy's generator: drain the upstream into the map
groupLoop(m, g, groups) ==
  LET G == m.heap[g]
      r == GenNext(m, G.up, g)
  IN  IF r.done
        THEN [m |-> r.m, groups |-> groups]
        ELSE groupLoop(Emit(r.m, FnEv(g, r.value)), g,
                       AddToGroups(groups, mapper(G.fn, r.value), r.value))

\* second loop of groupBy's generator: one Group per map entry
yieldGroup(m, g) ==
  LET G == m.heap[g] IN
  IF G.gidx < Len(G.groups)
    THEN LET entry == G.groups[G.gidx + 1]
             m2 == Alloc(m, of(entry.values))
         IN  Yield(SetGen(m2, g, [G EXCEPT !.gidx = @ + 1]), g,
                   GroupItem(entry.key, Len(m2.heap)))
    ELSE Complete(m, g)

groupByGen(m, g) ==
  IF m.heap[g].state = "suspendedStart"
    THEN LET d == groupLoop(m, g, <<>>)
         IN  yieldGroup([d.m EXCEPT !.heap[g].groups = d.groups], g)
    ELSE yieldGroup(m, g)

\* variant: the counter is compared after it is incremented
takeGen_OffByOne(m, g) ==
  LET G == m.heap[g]
      r == GenNext(m, G.up, g)
  IN  IF r.done
        THEN Complete(r.m, g)
        ELSE IF G.counter + 1 = G.count
               THEN Complete(GenReturn(r.m, G.up, g), g)
               ELSE Yield(SetGen(r.m, g, [G EXCEPT !.counter = @ + 1]), g, r.value)

\* variant: the loop is left without closing the upstream
takeGen_NoReturn(m, g) ==
  LET G == m.heap[g]
      r == GenNext(m, G.up, g)
  IN  IF r.done
        THEN Complete(r.m, g)
        ELSE IF G.counter = G.count
               THEN Complete(r.m, g)
               ELSE Yield(SetGen(r.m, g, [G EXCEPT !.counter = @ + 1]), g, r.value)

takeGen(m, g) ==
  LET G == m.heap[g]
      r == GenNext(m, G.up, g)
  IN  IF r.done
        THEN Complete(r.m, g)
        ELSE IF G.counter = G.count
               THEN Complete(GenReturn(r.m, G.up, g), g)
               ELSE Yield(SetGen(r.m, g, [G EXCEPT !.counter = @ + 1]), g, r.value)

\* variant: the item that completes the count is skipped too
skipGen_OffByOne(m, g) ==
  LET G == m.heap[g]
      r == GenNext(m, G.up, g)
  IN  IF r.done
        THEN Complete(r.m, g)
        ELSE IF G.counter <= G.count
               THEN skipGen(SetGen(r.m, g, [G EXCEPT !.counter = @ + 1]), g)
               ELSE Yield(r.m, g, r.value)

skipGen(m, g) ==
  LET G == m.heap[g]
      r == GenNext(m, G.up, g)
  IN  IF r.done
        THEN Complete(r.m, g)
        ELSE IF G.counter < G.count
               THEN skipGen(SetGen(r.m, g, [G EXCEPT !.counter = @ + 1]), g)
               ELSE Yield(r.m, g, r.value)

Resume(m, g) ==
  LET kind == m.heap[g].kind IN
  CASE kind = "array" -> generatorFromArray(m, g)
    [] kind = "range" -> rangeGen(m, g)
    [] kind = "select" -> selectGen(m, g)
    [] kind = "where" -> whereGen(m, g)
    [] kind = "groupBy" -> groupByGen(m, g)
    [] kind = "take" -> takeGen(m, g)
    [] kind = "skip" -> skipGen(m, g)

\* Generator.prototype.next, called by the for-of of consumer `by` (0: a terminal method)
GenNext(m, g, by) ==
  LET r == IF m.heap[g].state = "completed"
             THEN [m |-> m, done |-> TRUE, value |-> NoItem]
             ELSE Resume(m, g)
  IN  [r EXCEPT !.m = Emit(r.m, NextEv(g, by, r.done, r.value))]

\* variant: return() completes the generator without closing its upstream
GenReturn_NoCascade(m, g, by) ==
  Emit([m EXCEPT !.heap[g].state = "completed"], ReturnEv(g, by))

\* Generator.prototype.return, called when a for-of is left by break or throw.
\* A generator parked at a yield inside a for-of over another generator closes
\* that one in turn; array and Map iterators have no return method.
GenReturn(m, g, by) ==
  LET G == m.heap[g]
      inner == IF G.state = "suspendedYield" /\ G.kind \in StageKinds
                 THEN GenReturn(m, G.up, g)
                 ELSE m
  IN  Emit([inner EXCEPT !.heap[g].state = "completed"], ReturnEv(g, by))

(* ---------------- terminal methods ---------------- *)
Outcome(m, result) ==
  [m |-> m, result |-> result, error |-> "none", num |-> 0, arr |-> <<>>, set |-> {}]
Thrown(m, error) == [Outcome(m, "error") EXCEPT !.error = error]

\* variant: no typeof check
parseToNumber_NoCheck(item) ==
  [threw |-> FALSE, error |-> "none", v |-> item.v]

\* Stream.parseToNumber
parseToNumber(item) ==
  IF item.t # "number"
    THEN [threw |-> TRUE, error |-> "All items of the stream must be numbers", v |-> 0]
    ELSE [threw |-> FALSE, error |-> "none", v |-> item.v]

\* variant: the comparison is the wrong way round
MathMin_Swapped(a, b) == IF a >= b THEN a ELSE b
MathMin(a, b) == IF a <= b THEN a ELSE b
MathMax(a, b) == IF a >= b THEN a ELSE b

RECURSIVE sumLoop(_, _, _)
RECURSIVE minLoop(_, _, _)
RECURSIVE maxLoop(_, _, _)
RECURSIVE forEachLoop(_, _, _)
RECURSIVE ArrayFrom(_, _, _)
RECURSIVE NewSet(_, _, _)

\* variant: the error leaves the loop without closing the generator
sumLoop_NoClose(m, g, result) ==
  LET r == GenNext(m, g, 0)
      n == parseToNumber(r.value)
  IN  IF r.done
        THEN [Outcome(r.m, "number") EXCEPT !.num = result]
        ELSE IF n.threw
               THEN Thrown(r.m, n.error)
               ELSE sumLoop(r.m, g, result + n.v)

sumLoop(m, g, result) ==
  LET r == GenNext(m, g, 0)
      n == parseToNumber(r.value)
  IN  IF r.done
        THEN [Outcome(r.m, "number") EXCEPT !.num = result]
        ELSE IF n.threw
               THEN Thrown(GenReturn(r.m, g, 0), n.error)
               ELSE sumLoop(r.m, g, result + n.v)

\* acc is the local `min`: null, or a number
Null == [isNull |-> TRUE, v |-> 0]
NotNull(n) == [isNull |-> FALSE, v |-> n]
AsNumber(m, acc) ==
  IF acc.isNull THEN Outcome(m, "null") ELSE [Outcome(m, "number") EXCEPT !.num = acc.v]

minLoop(m, g, acc) ==
  LET r == GenNext(m, g, 0)
      n == parseToNumber(r.value)
  IN  IF r.done
        THEN AsNumber(r.m, acc)
        ELSE IF n.threw
               THEN Thrown(GenReturn(r.m, g, 0), n.error)
               ELSE IF acc.isNull
                      THEN minLoop(r.m, g, NotNull(n.v))
                      ELSE minLoop(r.m, g, NotNull(MathMin(acc.v, n.v)))

maxLoop(m, g, acc) ==
  LET r == GenNext(m, g, 0)
      n == parseToNumber(r.value)
  IN  IF r.done
        THEN AsNumber(r.m, acc)
        ELSE IF n.threw
               THEN Thrown(GenReturn(r.m, g, 0), n.error)
               ELSE IF acc.isNull
                      THEN maxLoop(r.m, g, NotNull(n.v))
                      ELSE maxLoop(r.m, g, NotNull(MathMax(acc.v, n.v)))

\* variant: the loop is left after the first item
forEachLoop_Once(m, g, arr) ==
  LET r == GenNext(m, g, 0) IN
  IF r.done
    THEN [Outcome(r.m, "undefined") EXCEPT !.arr = arr]
    ELSE [Outcome(GenReturn(Emit(r.m, ActEv(r.value)), g, 0), "undefined")
            EXCEPT !.arr = Append(arr, r.value)]

\* arr: the items the action was invoked on, in order
forEachLoop(m, g, arr) ==
  LET r == GenNext(m, g, 0) IN
  IF r.done
    THEN [Outcome(r.m, "undefined") EXCEPT !.arr = arr]
    ELSE forEachLoop(Emit(r.m, ActEv(r.value)), g, Append(arr, r.value))

ArrayFrom(m, g, arr) ==
  LET r == GenNext(m, g, 0) IN
  IF r.done
    THEN [Outcome(r.m, "array") EXCEPT !.arr = arr]
    ELSE ArrayFrom(r.m, g, Append(arr, r.value))

NewSet(m, g, set) ==
  LET r == GenNext(m, g, 0) IN
  IF r.done
    THEN [Outcome(r.m, "set") EXCEPT !.set = set]
    ELSE NewSet(r.m, g, set \cup {r.value})

(* ---------------- the program ---------------- *)
Streams == 1..Len(heap)
RangeInts == {0, 1, 2}
Counts == {0, 2}

Machine == [heap |-> heap, log |-> <<>>]

\* what the caller did to stream s before: nothing, a terminal method that
\* returned, or a terminal method that threw
Before(s) ==
  IF s \in used.aborted THEN "aborted"
  ELSE IF s \in used.drained THEN "drained"
  ELSE "fresh"

CallRecord(op, target, out) ==
  [op |-> op, target |-> target, before |-> Before(target),
   result |-> out.result, error |-> out.error,
   num |-> out.num, arr |-> out.arr, set |-> out.set, log |-> out.m.log]

NoCall == CallRecord("none", 0, Outcome(Machine, "undefined"))

\* the streams the caller gets hold of through delivered Group objects
Delivered(out) ==
  {out.arr[k].values : k \in {j \in 1..Len(out.arr) : out.arr[j].t = "group"}}
    \cup {x.values : x \in {y \in out.set : y.t = "group"}}

\* history: the triples <<g, by, done>> such that consumer `by` (a stage, or 0
\* for a terminal method) has called next() on generator g and got an element
\* (done = FALSE) or the end of the sequence (done = TRUE)
Receivers(log) ==
  {<<log[k].g, log[k].by, log[k].done>> : k \in {j \in 1..Len(log) : log[j].e = "next"}}

Construct(gen) ==
  /\ Len(heap) < MaxGens
  /\ heap' = Append(heap, gen)
  /\ handles' = handles \cup {Len(heap) + 1}
  /\ UNCHANGED <<used, last, ncalls, owners>>

Evaluate(op, s, out) ==
  /\ s \in handles
  /\ ncalls < MaxCalls
  /\ ncalls' = ncalls + 1
  /\ heap' = out.m.heap
  /\ handles' = handles \cup Delivered(out)
  /\ used' = IF out.result = "error"
               THEN [used EXCEPT !.aborted = @ \cup {s}]
               ELSE [used EXCEPT !.drained = @ \cup {s}]
  /\ last' = CallRecord(op, s, out)
  /\ owners' = owners \cup Receivers(out.m.log)

Init ==
  /\ heap = <<>>
  /\ handles = {}
  /\ used = [drained |-> {}, aborted |-> {}]
  /\ last = NoCall
  /\ ncalls = 0
  /\ owners = {}

stream(source) ==
  /\ heap = <<>>
  /\ Construct(of(source))

\* variant: no check of the bounds
range_NoCheck(start, end) ==
  /\ heap = <<>>
  /\ Construct([NewGen("range") EXCEPT !.i = start, !.end = end])

range(start, end) ==
  /\ heap = <<>>
  /\ IF start > end
       THEN /\ ncalls < MaxCalls
            /\ ncalls' = ncalls + 1
            /\ last' = CallRecord("range", 0,
                         Thrown(Machine, "Start number can not be greater than end number"))
            /\ UNCHANGED <<heap, handles, used, owners>>
       ELSE IF end < start
         THEN /\ ncalls < MaxCalls
              /\ ncalls' = ncalls + 1
              /\ last' = CallRecord("range", 0,
                           Thrown(Machine, "End number can not be less than start number"))
              /\ UNCHANGED <<heap, handles, used, owners>>
         ELSE Construct([NewGen("range") EXCEPT !.i = start, !.end = end])

\* variant: the first item is pulled when the stage is built
select_Eager(s, fn) ==
  /\ s \in handles
  /\ Len(heap) < MaxGens
  /\ heap' = Append(GenNext(Machine, s, Len(heap) + 1).m.heap,
                    [NewGen("select") EXCEPT !.up = s, !.fn = fn])
  /\ handles' = handles \cup {Len(heap')}
  /\ UNCHANGED <<used, last, ncalls, owners>>

select(s, fn) ==
  /\ s \in handles
  /\ Construct([NewGen("select") EXCEPT !.up = s, !.fn = fn])

where(s, fn) ==
  /\ s \in handles
  /\ Construct([NewGen("where") EXCEPT !.up = s, !.fn = fn])

groupBy(s, fn) ==
  /\ s \in handles
  /\ Construct([NewGen("groupBy") EXCEPT !.up = s, !.fn = fn])

take(s, count) ==
  /\ s \in handles
  /\ Construct([NewGen("take") EXCEPT !.up = s, !.count = count])

skip(s, count) ==
  /\ s \in handles
  /\ Construct([NewGen("skip") EXCEPT !.up = s, !.count = count])

sum(s) == Evaluate("sum", s, sumLoop(Machine, s, 0))
min(s) == Evaluate("min", s, minLoop(Machine, s, Null))
max(s) == Evaluate("max", s, maxLoop(Machine, s, Null))
forEach(s) == Evaluate("forEach", s, forEachLoop(Machine, s, <<>>))
toArray(s) == Evaluate("toArray", s, ArrayFrom(Machine, s, <<>>))
toSet(s) == Evaluate("toSet", s, NewSet(Machine, s, {}))

Next ==
  \/ \E source \in Arrays : stream(source)
  \/ \E start \in RangeInts, end \in RangeInts : range(start, end)
  \/ \E s \in Streams, fn \in Mappers : select(s, fn)
  \/ \E s \in Streams, fn \in Predicates : where(s, fn)
  \/ \E s \in Streams, fn \in KeySelectors : groupBy(s, fn)
  \/ \E s \in Streams, count \in Counts : take(s, count)
  \/ \E s \in Streams, count \in Counts : skip(s, count)
  \/ \E s \in Streams : sum(s)
  \/ \E s \in Streams : min(s)
  \/ \E s \in Streams : max(s)
  \/ \E s \in Streams : forEach(s)
  \/ \E s \in Streams : toArray(s)
  \/ \E s \in Streams : toSet(s)

Spec == Init /\ [][Next]_vars

(* ---------------- reading a call's events ---------------- *)
TerminalOps == {"sum", "min", "max", "forEach", "toArray", "toSet"}
NumericOps == {"sum", "min", "max"}

\* the items consumer `by` (0: the terminal method) got from generator g, in order
PulledBy(log, g, by) ==
  LET IsPull(ev) == ev.e = "next" /\ ev.g = g /\ ev.by = by /\ ~ev.done
      sel == SelectSeq(log, IsPull)
  IN  [k \in 1..Len(sel) |-> sel[k].item]

\* the items the function of stage g was invoked on, in order
InvokedOn(log, g) ==
  LET IsFn(ev) == ev.e = "fn" /\ ev.g = g
      sel == SelectSeq(log, IsFn)
  IN  [k \in 1..Len(sel) |-> sel[k].item]

\* the items the terminal method of the last call saw
Seen == PulledBy(last.log, last.target, 0)

(* ---------------- claims ---------------- *)

\* C1: a take(count) stage never pulls more than count elements from its
\* upstream; take(0) pulls nothing and never has an upstream select/where
\* stage invoke its mapper or predicate.
C1_TakePullsAtMostCount ==
  \A t \in 1..Len(heap) :
    heap[t].kind = "take" =>
      /\ Len(PulledBy(last.log, heap[t].up, t)) <= heap[t].count
      /\ (heap[t].count = 0 /\ heap[heap[t].up].kind \in {"select", "where"})
           => InvokedOn(last.log, heap[t].up) = <<>>

\* C2: min() and max() on a sequence that yields no element fail with an
\* error; they never return a null-like value.
C2_MinMaxEmptyFails ==
  (last.op \in {"min", "max"} /\ Seen = <<>>) => last.result = "error"

\* C3: once a terminal method has drained a stream, every later terminal
\* method on the same stream sees no element: nothing is pulled, the action of
\* forEach is never invoked, the array and the set are empty, and nothing is
\* thrown.
C3_ExhaustionOneWay ==
  (last.op \in TerminalOps /\ last.before = "drained") =>
    /\ Seen = <<>>
    /\ last.arr = <<>>
    /\ last.set = {}
    /\ last.result # "error"
    /\ \A k \in 1..Len(last.log) : last.log[k].e # "action"

\* a second toArray() on an array stream whose three elements the first
\* terminal method has drained
C3_Witness ==
  /\ last.op = "toArray" /\ last.before = "drained"
  /\ Len(heap) = 1 /\ heap[1].kind = "array"
  /\ heap[1].idx = MaxLen /\ Len(heap[1].source) = MaxLen
  /\ last.arr = <<>>

\* C4: sum(), min() and max() throw at the first non-numeric element they are
\* handed, whatever its position: that element is the last one pulled, every
\* element before it is a number, and no number is returned.
C4_NumericAbortsAtFirstNonNumber ==
  (last.op \in NumericOps /\ \E k \in 1..Len(Seen) : Seen[k].t # "number") =>
    /\ last.result = "error"
    /\ last.error = "All items of the stream must be numbers"
    /\ Seen[Len(Seen)].t # "number"
    /\ \A k \in 1..(Len(Seen) - 1) : Seen[k].t = "number"

\* sum() thrown on a non-number in the last position, after two numbers
C4_Witness ==
  /\ last.op = "sum" /\ last.result = "error"
  /\ Len(Seen) = MaxLen
  /\ Seen[1].t = "number" /\ Seen[2].t = "number" /\ Seen[MaxLen].t = "string"

\* C5: range(start, end) with start > end throws at the call: no stream is
\* created and no element is produced.
C5_InvalidRangeThrowsAtCall ==
  [][\A start \in RangeInts, end \in RangeInts :
       (start > end /\ range(start, end)) =>
         /\ last'.op = "range" /\ last'.result = "error"
         /\ last'.log = <<>>
         /\ heap' = heap /\ handles' = handles]_vars

\* a failed range call, with no stream in existence
C5_Witness ==
  /\ last.op = "range" /\ last.result = "error"
  /\ heap = <<>> /\ handles = {}

\* the first call made on a pipeline: nothing has been pulled before it
FirstCall(op) == ncalls = 1 /\ last.op = op

\* the positions of a sequence at which its value occurs for the first time
FirstOccurrences(seq) == {k \in 1..Len(seq) : \A j \in 1..(k - 1) : seq[j] # seq[k]}
\* the n-th smallest member of a set of positions
Nth(S, n) == CHOOSE k \in S : Cardinality({j \in S : j < k}) = n - 1

\* the only stream made by stream() is stream 1: any other array stream is
\* the values of a Group
IsGroupValues(s) == s > 1 /\ heap[s].kind = "array"

\* C6: groupBy yields one Group per distinct key, in the order the keys first
\* occur upstream; each Group's values are a fresh stream over exactly the
\* upstream elements with that key, in upstream order, and materializing it
\* gives those elements; over an array all the elements of the array are
\* grouped, and an empty upstream gives no group.
C6_GroupByFirstOccurrenceOrder ==
  /\ (last.op = "toArray" /\ last.before = "fresh" /\ IsGroupValues(last.target)) =>
       last.arr = heap[last.target].source
  /\ (last.op = "toArray" /\ last.before = "fresh" /\ heap[last.target].kind = "groupBy") =>
    LET g == last.target
        G == heap[g]
        U == PulledBy(last.log, G.up, g)
        keys == [k \in 1..Len(U) |-> mapper(G.fn, U[k])]
        first == FirstOccurrences(keys)
    IN  /\ (ncalls = 1 /\ heap[G.up].kind = "array") => U = heap[G.up].source
        /\ Len(last.arr) = Cardinality(first)
        /\ \A n \in 1..Len(last.arr) :
             LET group == last.arr[n]
                 HasKeyOfGroup(k) == keys[k] = group.key
                 members == {k \in 1..Len(U) : HasKeyOfGroup(k)}
             IN  /\ group.t = "group"
                 /\ group.key = keys[Nth(first, n)]
                 /\ heap[group.values].kind = "array"
                 /\ heap[group.values].state = "suspendedStart"
                 /\ heap[group.values].idx = 0
                 /\ Len(heap[group.values].source) = Cardinality(members)
                 /\ \A j \in 1..Cardinality(members) :
                      heap[group.values].source[j] = U[Nth(members, j)]

\* two groups out of a three-element array whose first key occurs again last
C6_Witness ==
  /\ FirstCall("toArray") /\ Len(heap) > 2
  /\ heap[1].kind = "array" /\ heap[2].kind = "groupBy" /\ last.target = 2
  /\ Len(heap[1].source) = MaxLen
  /\ Len(last.arr) = 2
  /\ Len(heap[last.arr[1].values].source) = 2
  /\ heap[last.arr[1].values].source[2] = heap[1].source[MaxLen]
  /\ heap[1].source[1] # heap[1].source[MaxLen]

\* C7: stream(A).toArray() equals A.
C7_ArrayRoundTrip ==
  (FirstCall("toArray") /\ heap[last.target].kind = "array") =>
    last.arr = heap[last.target].source

\* a three-element array with a duplicate, materialized
C7_Witness ==
  /\ FirstCall("toArray") /\ heap[last.target].kind = "array"
  /\ Len(last.arr) = MaxLen
  /\ last.arr[1] = last.arr[MaxLen] /\ last.arr[1] # last.arr[2]

C9_SelectMapsElementwise ==
  (FirstCall("toArray") /\ heap[last.target].kind = "select"
     /\ heap[heap[last.target].up].kind = "array") =>
    LET A == heap[heap[last.target].up].source
    IN  /\ Len(last.arr) = Len(A)
        /\ \A k \in 1..Len(A) : last.arr[k] = mapper(heap[last.target].fn, A[k])

\* three elements mapped, the mapper changing at least the first
C9_Witness ==
  /\ FirstCall("toArray") /\ heap[last.target].kind = "select"
  /\ heap[heap[last.target].up].kind = "array"
  /\ Len(last.arr) = MaxLen
  /\ last.arr[1] # heap[heap[last.target].up].source[1]

\* C10: stream(A).take(n).toArray() is the first min(n, length of A) elements
\* of A.
C10_TakeIsPrefix ==
  (FirstCall("toArray") /\ heap[last.target].kind = "take"
     /\ heap[heap[last.target].up].kind = "array") =>
    LET A == heap[heap[last.target].up].source
        n == heap[last.target].count
    IN  last.arr = SubSeq(A, 1, IF n < Len(A) THEN n ELSE Len(A))

\* take(2) of a three-element array
C10_Witness ==
  /\ FirstCall("toArray") /\ heap[last.target].kind = "take"
  /\ heap[heap[last.target].up].kind = "array"
  /\ Len(heap[heap[last.target].up].source) = MaxLen
  /\ heap[last.target].count = 2
  /\ Len(last.arr) = 2

\* C11: stream(A).skip(n).toArray() is A without its first min(n, length of A)
\* elements; it is empty when n is at least the length of A.
C11_SkipDropsPrefix ==
  (FirstCall("toArray") /\ heap[last.target].kind = "skip"
     /\ heap[heap[last.target].up].kind = "array") =>
    LET A == heap[heap[last.target].up].source
        n == heap[last.target].count
    IN  /\ last.arr = SubSeq(A, (IF n < Len(A) THEN n ELSE Len(A)) + 1, Len(A))
        /\ n >= Len(A) => last.arr = <<>>

\* skip(2) of a three-element array
C11_Witness ==
  /\ FirstCall("toArray") /\ heap[last.target].kind = "skip"
  /\ heap[heap[last.target].up].kind = "array"
  /\ Len(heap[heap[last.target].up].source) = MaxLen
  /\ heap[last.target].count = 2
  /\ last.arr = <<heap[heap[last.target].up].source[MaxLen]>>

\* C12: range(start, end) with start <= end makes a stream that yields
\* start, start + 1, ..., end: end - start + 1 numbers, both bounds included.
C12_RangeIsInclusive ==
  [][/\ \A start \in RangeInts, end \in RangeInts :
          (start <= end /\ range(start, end)) =>
            /\ heap'[1].kind = "range" /\ heap'[1].state = "suspendedStart"
            /\ heap'[1].i = start /\ heap'[1].end = end
     /\ \A s \in Streams :
          (heap[s].kind = "range" /\ heap[s].state = "suspendedStart" /\ toArray(s)) =>
            last'.arr = [k \in 1..(heap[s].end - heap[s].i + 1) |-> Num(heap[s].i + k - 1)]
    ]_vars

\* range(0, 2) materialized
C12_Witness ==
  /\ FirstCall("toArray") /\ heap[last.target].kind = "range"
  /\ heap[last.target].end = 2
  /\ last.arr = <<Num(0), Num(1), Num(2)>>

\* C13: on a non-empty sequence of numbers min() returns the least and max()
\* the greatest element, wherever it stands and however often it occurs.
C13_MinMaxAreExtremes ==
  (last.op \in {"min", "max"} /\ Seen # <<>>
     /\ \A k \in 1..Len(Seen) : Seen[k].t = "number") =>
    /\ last.result = "number"
    /\ \E k \in 1..Len(Seen) : Seen[k].v = last.num
    /\ last.op = "min" => \A k \in 1..Len(Seen) : last.num <= Seen[k].v
    /\ last.op = "max" => \A k \in 1..Len(Seen) : last.num >= Seen[k].v

\* min() of three numbers, the least one in the middle and a duplicate around it
C13_Witness ==
  /\ last.op = "min" /\ Len(Seen) = MaxLen
  /\ Seen[1] = Seen[MaxLen] /\ Seen[2].t = "number" /\ Seen[1].t = "number"
  /\ Seen[2].v < Seen[1].v
  /\ last.num = Seen[2].v

\* the items the action of forEach was invoked on, in order
ActedOn(log) ==
  LET IsAct(ev) == ev.e = "action"
      sel == SelectSeq(log, IsAct)
  IN  [k \in 1..Len(sel) |-> sel[k].item]

\* C14: forEach invokes its action once for each element the stream yields,
\* in yield order and right after the element is yielded, and returns only
\* when the stream has answered done; on an empty stream the action is never
\* invoked.
C14_ForEachOncePerElement ==
  last.op = "forEach" =>
    /\ ActedOn(last.log) = Seen
    /\ \A k \in 1..Len(last.log) :
         (last.log[k].e = "next" /\ last.log[k].by = 0 /\ ~last.log[k].done) =>
           /\ k < Len(last.log)
           /\ last.log[k + 1] = ActEv(last.log[k].item)
    /\ last.log # <<>>
    /\ last.log[Len(last.log)] = NextEv(last.target, 0, TRUE, NoItem)
    /\ heap[last.target].state = "completed"
    /\ last.result = "undefined"

\* forEach over three elements
C14_Witness ==
  /\ last.op = "forEach" /\ last.before = "fresh"
  /\ Len(ActedOn(last.log)) = MaxLen
  /\ heap[last.target].state = "completed"

\* the consumers that have called next() on generator g, and those that have
\* got an element from it
PullersOf(g) == {p[2] : p \in {q \in owners : q[1] = g}}
OwnersOf(g) == {p[2] : p \in {q \in owners : q[1] = g /\ ~q[3]}}

\* C15, as claimed: in every reachable state each stream is pulled from by at
\* most one consumer.
C15_OnePullerPerStream ==
  \A g \in 1..Len(heap) : Cardinality(PullersOf(g)) <= 1

\* C15, amended: several consumers may be built on one stream and pull from
\* it, but (the callbacks not calling back into the library) at most one of
\* them ever gets an element from it; the others find it exhausted.
C15_OneConsumerGetsElements ==
  \A g \in 1..Len(heap) : Cardinality(OwnersOf(g)) <= 1

\* two stages built on the same non-empty array stream, both evaluated: the
\* first got all the elements, the second none
C15_Witness ==
  /\ Len(heap) > 2
  /\ heap[2].up = 1 /\ heap[3].up = 1 /\ heap[1].kind = "array"
  /\ used.drained = {2, 3} /\ last.target = 3
  /\ Len(heap[1].source) = MaxLen
  /\ OwnersOf(1) = {2}
  /\ PullersOf(1) = {2, 3}
  /\ PulledBy(last.log, 1, 3) = <<>>

\* the positions in a log at which generator g hands out an element
YieldsAt(log, g) == {k \in 1..Len(log) : log[k].e = "next" /\ log[k].g = g /\ ~log[k].done}

\* C16: groupBy is an eager barrier.  Before a groupBy stage hands out its
\* first Group its upstream has answered done, the key selector has been
\* invoked on every element pulled from the upstream (all of an array's
\* elements), and nothing is pulled from the upstream afterwards, even when
\* the consumer stops after one Group.
C16_GroupByDrainsFirst ==
  \A g \in 1..Len(heap) :
    (heap[g].kind = "groupBy" /\ YieldsAt(last.log, g) # {}) =>
      LET up == heap[g].up
          first == Nth(YieldsAt(last.log, g), 1)
      IN  /\ \E q \in 1..(first - 1) : last.log[q] = NextEv(up, g, TRUE, NoItem)
          /\ \A k \in 1..Len(last.log) :
               (last.log[k].by = g /\ last.log[k].e \in {"next", "fn"}) => k < first
          /\ InvokedOn(last.log, g) = PulledBy(last.log, up, g)
          /\ heap[up].state = "completed"
          /\ (ncalls = 1 /\ heap[up].kind = "array") =>
               PulledBy(last.log, up, g) = heap[up].source

\* take(0) over groupBy over a three-element array with at least two keys: the
\* consumer takes one Group and stops, the selector has seen all three elements
C16_Witness ==
  /\ FirstCall("toArray") /\ last.target = 3
  /\ heap[1].kind = "array" /\ Len(heap[1].source) = MaxLen
  /\ heap[2].kind = "groupBy" /\ heap[2].up = 1 /\ Len(heap[2].groups) >= 2
  /\ heap[3].kind = "take" /\ heap[3].up = 2 /\ heap[3].count = 0
  /\ Len(PulledBy(last.log, 2, 3)) = 1
  /\ Len(InvokedOn(last.log, 2)) = MaxLen

\* C17: construction is lazy.  A step that builds a source or a stage leaves
\* every existing generator as it was (nothing is pulled), adds one generator
\* whose body has not been entered, and invokes nothing: no event is recorded
\* and no consumer has pulled anything more than before.
C17_ConstructionIsLazy ==
  [][(ncalls' = ncalls) =>
       /\ Len(heap') = Len(heap) + 1
       /\ SubSeq(heap', 1, Len(heap)) = heap
       /\ heap'[Len(heap')].state = "suspendedStart"
       /\ heap'[Len(heap')].idx = 0
       /\ heap'[Len(heap')].counter = 0
       /\ heap'[Len(heap')].groups = <<>>
       /\ last' = last
       /\ owners' = owners]_vars

\* a three-stage pipeline built over a non-empty array, nothing pulled yet
C17_Witness ==
  /\ ncalls = 0 /\ Len(heap) = MaxGens /\ owners = {} /\ last = NoCall
  /\ heap[1].kind = "array" /\ heap[1].source # <<>> /\ heap[1].idx = 0
  /\ heap[2].kind = "select" /\ heap[2].up = 1
  /\ heap[MaxGens].kind = "groupBy" /\ heap[MaxGens].up = MaxGens - 1
  /\ \A g \in 1..Len(heap) : heap[g].state = "suspendedStart"

\* generator g and the generators upstream of it
RECURSIVE Chain(_)
Chain(g) == IF g = 0 THEN {} ELSE {g} \cup Chain(heap[g].up)

\* positions in log where generator by called next() on generator g
PullsAt(log, g, by) ==
  {k \in 1..Len(log) : log[k].e = "next" /\ log[k].g = g /\ log[k].by = by}

\* the take stages that stopped pulling in the last call while their upstream
\* still had elements: they ran to completion and the last next() they made
\* on the upstream returned an element
BrokeOff ==
  {t \in 1..Len(heap) :
     /\ heap[t].kind = "take"
     /\ heap[t].state = "completed"
     /\ PullsAt(last.log, heap[t].up, t) # {}
     /\ LET P == PullsAt(last.log, heap[t].up, t)
            k == CHOOSE x \in P : \A y \in P : y <= x
        IN  ~last.log[k].done
     /\ \E k \in 1..Len(last.log) :
          last.log[k].e = "next" /\ last.log[k].g = t /\ last.log[k].done}

\* every generator upstream of a take stage that broke off is completed
ClosedAboveBreak ==
  \A t \in BrokeOff : \A g \in Chain(heap[t].up) : heap[g].state = "completed"

\* C18: when a take stage stops pulling while its upstream still has
\* elements, the upstream and every stage above it are left completed; a
\* completed generator never changes again and hands no element to any later
\* call, so the remaining elements are never delivered.
C18_EarlyStopExhaustsUpstream ==
  [][/\ ClosedAboveBreak'
     /\ \A g \in 1..Len(heap) :
          heap[g].state = "completed" =>
            /\ heap'[g] = heap[g]
            /\ (ncalls' = ncalls + 1) => YieldsAt(last'.log, g) = {}]_vars

\* take(0) over select over a three-element array was materialized, then the
\* array stream itself: it yields nothing, two elements were never delivered
C18_Witness ==
  /\ ncalls = 2 /\ Len(heap) = 3
  /\ heap[1].kind = "array" /\ Len(heap[1].source) = MaxLen
  /\ heap[2].kind = "select" /\ heap[2].up = 1
  /\ heap[3].kind = "take" /\ heap[3].up = 2 /\ heap[3].count = 0
  /\ used.drained = {1, 3}
  /\ last.op = "toArray" /\ last.target = 1 /\ last.before = "fresh"
  /\ last.arr = <<>>
  /\ heap[1].idx = 1
  /\ OwnersOf(1) = {2}

\* the source generator under g
RECURSIVE Root(_)
Root(g) == IF heap[g].up = 0 THEN g ELSE Root(heap[g].up)

\* g is a pipeline of select, where and skip stages over an array or a range
ElementwisePipeline(g) ==
  /\ heap[Root(g)].kind \in {"array", "range"}
  /\ \A x \in Chain(g) \ {Root(g)} : heap[x].kind \in {"select", "where", "skip"}

\* the number of elements generator g has handed out in the first n events
YieldedUpTo(log, n, g) == Cardinality({k \in YieldsAt(log, g) : k <= n})

\* the number of elements stage g had to discard in the first n events: the
\* ones a where stage's predicate rejected, the first count ones a skip stage
\* received
DiscardedBy(log, n, g) ==
  CASE heap[g].kind = "where" ->
         Cardinality({k \in 1..n : /\ log[k].e = "fn" /\ log[k].g = g
                                   /\ ~predicate(heap[g].fn, log[k].item)})
    [] heap[g].kind = "skip" ->
         LET got == YieldedUpTo(log, n, heap[g].up)
         IN  IF got < heap[g].count THEN got ELSE heap[g].count
    [] OTHER -> 0

RECURSIVE DiscardedUpTo(_, _, _)
DiscardedUpTo(log, n, g) ==
  IF g = 0 THEN 0 ELSE DiscardedBy(log, n, g) + DiscardedUpTo(log, n, heap[g].up)

FnAt(log, g) == {k \in 1..Len(log) : log[k].e = "fn" /\ log[k].g = g}
ActionAt(log) == {k \in 1..Len(log) : log[k].e = "action"}

\* C19: elements pass through select, where and skip stages one at a time.
\* In forEach over a select stage the mapper and the action alternate: the
\* mapper runs on an element, the action runs on the mapped element, and only
\* then does the mapper run on the next one. At every moment of a call on a
\* pipeline of select/where/skip stages, the elements pulled from the source
\* are the ones delivered, the ones where/skip stages discarded, and at most
\* one on its way to the output being requested; when an output is handed
\* over none is on its way.
C19_OneElementAtATime ==
  LET log == last.log
      t == last.target
  IN
  /\ (last.op = "forEach" /\ heap[t].kind = "select") =>
       LET F == FnAt(log, t)
           A == ActionAt(log)
       IN  /\ Cardinality(F) = Cardinality(A)
           /\ \A i \in 1..Cardinality(F) :
                /\ Nth(F, i) < Nth(A, i)
                /\ log[Nth(A, i)].item = mapper(heap[t].fn, log[Nth(F, i)].item)
                /\ (i < Cardinality(F)) => Nth(A, i) < Nth(F, i + 1)
  /\ (last.op \in TerminalOps /\ ElementwisePipeline(t)) =>
       \A n \in 0..Len(log) :
         LET pulled == YieldedUpTo(log, n, Root(t))
             accounted == YieldedUpTo(log, n, t) + IF t = Root(t) THEN 0 ELSE DiscardedUpTo(log, n, t)
         IN  /\ accounted <= pulled
             /\ pulled <= accounted + 1
             /\ (n > 0 /\ log[n].e = "next" /\ log[n].g = t) => pulled = accounted

\* forEach over select over where over a three-element array: one element
\* discarded, two mapped and acted on
C19_Witness ==
  /\ ncalls = 1 /\ Len(heap) = 3
  /\ heap[1].kind = "array" /\ Len(heap[1].source) = MaxLen
  /\ heap[2].kind = "where" /\ heap[2].up = 1
  /\ heap[3].kind = "select" /\ heap[3].up = 2
  /\ last.op = "forEach" /\ last.target = 3
  /\ Len(ActedOn(last.log)) = 2
  /\ Len(InvokedOn(last.log, 2)) = MaxLen
  /\ DiscardedUpTo(last.log, Len(last.log), 3) = 1

\* the last call was sum, min or max and failed on a non-numeric element
NumericAborted == last.op \in NumericOps /\ last.result = "error"

\* the last call was a terminal method on a stream an earlier numeric call
\* had failed on
AfterAbort == last.op \in TerminalOps /\ last.before = "aborted"

\* C20: when sum, min or max fails on a non-numeric element, the stream and
\* every generator upstream of it are left completed; a later terminal method
\* on the same stream gets no element (neither the ones already consumed nor
\* the ones after the offending one), runs no callback and changes no
\* generator.
C20_AbortExhausts ==
  [][(ncalls' = ncalls + 1) =>
       /\ NumericAborted' =>
            \A g \in Chain(last.target)' : heap'[g].state = "completed"
       /\ AfterAbort' =>
            /\ heap' = heap
            /\ Seen' = <<>>
            /\ \A k \in 1..Len(last'.log) : last'.log[k].e = "next" /\ last'.log[k].done
            /\ last'.arr = <<>>
            /\ last'.set = {}]_vars

\* a numeric call failed on the second of three elements; toArray on the same
\* stream then returned the empty array, the third element never yielded
C20_Witness ==
  /\ ncalls = 2 /\ Len(heap) = 1
  /\ heap[1].kind = "array" /\ Len(heap[1].source) = MaxLen
  /\ heap[1].source[1].t = "number" /\ heap[1].source[2].t = "string"
  /\ heap[1].idx = 2
  /\ heap[1].state = "completed"
  /\ used.aborted = {1}
  /\ last.op = "toArray" /\ last.target = 1 /\ last.before = "aborted"
  /\ last.arr = <<>>

====
